---------------------------- MODULE Spec2Model ----------------------------
(***************************************************************************)
(* A model of the temporal-clustering core of scripts/git2work.py:         *)
(*   commit_time_dt, compute_work_sessions, compute_feature_windows,       *)
(*   detect_parallel_sessions.                                             *)
(*                                                                         *)
(* Instants are naive local datetimes, written as whole seconds on one     *)
(* axis.  A timedelta is a difference of instants, in seconds.             *)
(* Python's None is the empty tuple <<>>; a present integer e is <<e>>.    *)
(* Python lists are sequences (1-based here); a dict with fixed keys is a  *)
(* record.  Projects (dict keys, repo names) are numbered 1, 2, 3 in the   *)
(* order in which their names sort.  A str that the program takes apart   *)
(* (a commit message) is the sequence of its characters.                   *)
(***************************************************************************)
EXTENDS Integers, Sequences, FiniteSets, TLC

VARIABLES
    pc,                 \* where the call in progress stands
    \* ---- compute_work_sessions(commits, gap_minutes, pull_times)
    commits,            \* argument: list of commit dicts
    gap_minutes,        \* argument
    pull_times,         \* argument: list of instants
    items,              \* sorted(commits, key=commit_time_dt)
    pull_times_sorted,  \* sorted(pull_times) if pull_times else []
    idx,                \* position of the loop "for c in items[1:]"
    current,            \* the open session
    sessions,           \* the closed sessions / the return value
    \* ---- detect_parallel_sessions(repo_to_sessions)
    repo_to_sessions,   \* argument: list of <<repo, list of sessions>> in dict order
    all_periods,        \* flattened and sorted {start, end, repo}
    pidx,               \* position of the loop "for period in all_periods"
    current_overlaps,   \* the group being chained
    merged_overlaps,    \* phase-1 output; phase 2 updates its members in place
    cidx,               \* which member of merged_overlaps "current" refers to
    qidx,               \* position of the loop "for next_period in merged_overlaps[1:]"
    final_merged,       \* the return value
    markers,            \* the report: is_parallel of every session, by project
    \* ---- compute_feature_windows(commits)
    windows,            \* the dict key -> {start, end, count} / the return value
    widx,               \* position of the loop "for c in commits"
    fw_t                \* "t = commit_time_dt(c)" of the last iteration

cws_vars == <<commits, gap_minutes, pull_times, items, pull_times_sorted,
              idx, current, sessions>>
dps_vars == <<repo_to_sessions, all_periods, pidx, current_overlaps,
              merged_overlaps, cidx, qidx, final_merged, markers>>
fw_vars == <<windows, widx, fw_t>>
vars == <<pc, cws_vars, dps_vars, fw_vars>>

----------------------------------------------------------------------------
(* Program constants *)

\* timedelta(minutes=..), total_seconds() // 60
SecondsPerMinute == 60
\* "time_diff <= 120": a pull within 2 hours before the commit is used
PULL_LOOKBACK_MINUTES == 120
\* "gap <= 5": periods at most 5 minutes apart are merged
MERGE_GRACE_MINUTES == 5

(* Bounds of the model *)

\* the longest commit list given to compute_work_sessions
MaxCommits == 3
\* the most pull marks given to compute_work_sessions
MaxPulls == 2
\* the most sessions, over all projects, given to detect_parallel_sessions
MaxSessions == 4
\* the utc offset, in seconds, of the zone the program runs in
LocalUtcOffset == 3600

None == <<>>
Some(e) == <<e>>

Max(a, b) == IF a >= b THEN a ELSE b
Min(a, b) == IF a <= b THEN a ELSE b
SeqToSet(s) == {s[i] : i \in 1..Len(s)}
Last(s) == s[Len(s)]

----------------------------------------------------------------------------
(* commit_time_dt *)

\* datetime.fromtimestamp(e): the naive local datetime of epoch e
fromtimestamp(e) == e + LocalUtcOffset

\* The 'date' text is a record: fmt says which of the three parses accepts
\* it ("tz": "%Y-%m-%d %H:%M:%S %z"; "bare": "%Y-%m-%d %H:%M:%S"; "iso":
\* only datetime.fromisoformat; "bad": none), clock is the wall-clock
\* reading it spells and utcoff the offset it spells (fmt "tz").
parse_date_ok(ds) == ds.fmt \in {"tz", "bare", "iso"}
parse_date(ds) ==
    IF ds.fmt = "tz"
    THEN (ds.clock - ds.utcoff) + LocalUtcOffset   \* .astimezone().replace(tzinfo=None)
    ELSE ds.clock

\* "if c.get('date_epoch')": None and 0 are both falsy
epoch_used(c) == c.date_epoch /= None /\ c.date_epoch[1] /= 0

\* commit_time_dt(c) returns iff resolves(c); otherwise the last parse raises
resolves(c) == epoch_used(c) \/ parse_date_ok(c.date)
commit_time_dt(c) ==
    IF epoch_used(c) THEN fromtimestamp(c.date_epoch[1]) ELSE parse_date(c.date)

----------------------------------------------------------------------------
(* sorted(): Python's sort is stable; insertion after the last element *)
(* whose key is <= the new one keeps equal keys in input order.        *)

RECURSIVE insert_by_time(_, _)
insert_by_time(s, c) ==
    IF s = <<>> THEN <<c>>
    ELSE IF commit_time_dt(Last(s)) <= commit_time_dt(c) THEN Append(s, c)
    ELSE Append(insert_by_time(SubSeq(s, 1, Len(s) - 1), c), Last(s))

sorted_by_time_asis(s) == s

RECURSIVE sorted_by_time(_)
sorted_by_time(s) ==
    IF s = <<>> THEN <<>>
    ELSE insert_by_time(sorted_by_time(SubSeq(s, 1, Len(s) - 1)), Last(s))

RECURSIVE insert_instant(_, _)
insert_instant(s, t) ==
    IF s = <<>> THEN <<t>>
    ELSE IF Last(s) <= t THEN Append(s, t)
    ELSE Append(insert_instant(SubSeq(s, 1, Len(s) - 1), t), Last(s))

RECURSIVE sorted_instants(_)
sorted_instants(s) ==
    IF s = <<>> THEN <<>>
    ELSE insert_instant(sorted_instants(SubSeq(s, 1, Len(s) - 1)), Last(s))

----------------------------------------------------------------------------
(* compute_work_sessions *)

RECURSIVE pull_start_wide(_, _, _)
pull_start_wide(pts, i, t) ==
    IF i = 0 THEN t
    ELSE IF pts[i] <= t
            /\ t - pts[i] > 0
            /\ t - pts[i] <= (PULL_LOOKBACK_MINUTES + 1) * SecondsPerMinute
         THEN pts[i]
         ELSE pull_start_wide(pts, i - 1, t)

RECURSIVE pull_start_after(_, _, _)
pull_start_after(pts, i, t) ==
    IF i = 0 THEN t
    ELSE IF pts[i] >= t
            /\ pts[i] - t > 0
            /\ pts[i] - t <= PULL_LOOKBACK_MINUTES * SecondsPerMinute
         THEN pts[i]
         ELSE pull_start_after(pts, i - 1, t)

\* "for pull_time in reversed(pull_times_sorted)": walk from position i down;
\* the first mark with 0 < t - mark <= 120 minutes becomes the start, else t
RECURSIVE pull_start(_, _, _)
pull_start(pts, i, t) ==
    IF i = 0 THEN t
    ELSE IF pts[i] <= t
            /\ t - pts[i] > 0
            /\ t - pts[i] <= PULL_LOOKBACK_MINUTES * SecondsPerMinute
         THEN pts[i]
         ELSE pull_start(pts, i - 1, t)

\* the first session, opened by commit c: start = end = its time, then the
\* pull search
new_session(c, pts) ==
    [start   |-> pull_start(pts, Len(pts), commit_time_dt(c)),
     end     |-> commit_time_dt(c),
     commits |-> <<c>>]

\* the session opened inside the loop by commit c, with its own copy of
\* the pull search
next_session_unadjusted(c, pts) ==
    [start   |-> commit_time_dt(c),
     end     |-> commit_time_dt(c),
     commits |-> <<c>>]
next_session(c, pts) ==
    [start   |-> pull_start(pts, Len(pts), commit_time_dt(c)),
     end     |-> commit_time_dt(c),
     commits |-> <<c>>]

\* "t - commit_time_dt(current['commits'][-1]) <= gap"
within_gap_strict(cur, t, gapmin) ==
    t - commit_time_dt(Last(cur.commits)) < gapmin * SecondsPerMinute
within_gap_hours(cur, t, gapmin) ==
    t - commit_time_dt(Last(cur.commits)) <= gapmin * SecondsPerMinute * 60
within_gap(cur, t, gapmin) ==
    t - commit_time_dt(Last(cur.commits)) <= gapmin * SecondsPerMinute

\* "max(1, int((current['end'] - current['start']).total_seconds() // 60))"
session_minutes_nomin(cur) == (cur.end - cur.start) \div SecondsPerMinute
session_minutes(cur) == Max(1, (cur.end - cur.start) \div SecondsPerMinute)

closed(cur) ==
    [start |-> cur.start, end |-> cur.end, commits |-> cur.commits,
     duration_minutes |-> session_minutes(cur)]

NoSession == [start |-> 0, end |-> 0, commits |-> <<>>]

\* "if not commits: return []"
CwsEmpty_unguarded ==
    /\ pc = "cws_call"
    /\ commits = <<>>
    /\ pc' = "cws_raised"
    /\ UNCHANGED <<cws_vars, dps_vars, fw_vars>>
CwsEmpty ==
    /\ pc = "cws_call"
    /\ commits = <<>>
    /\ sessions' = <<>>
    /\ pc' = "cws_done"
    /\ UNCHANGED <<commits, gap_minutes, pull_times, items, pull_times_sorted,
                   idx, current, dps_vars, fw_vars>>

\* sorted(commits, key=commit_time_dt) calls commit_time_dt on every commit;
\* one that does not resolve raises out of compute_work_sessions
CwsRaise ==
    /\ pc = "cws_call"
    /\ commits /= <<>>
    /\ \E i \in 1..Len(commits) : ~resolves(commits[i])
    /\ pc' = "cws_raised"
    /\ UNCHANGED <<cws_vars, dps_vars, fw_vars>>

\* the sort, the first session and its pull search
CwsStart_inplace ==
    /\ pc = "cws_call"
    /\ commits /= <<>>
    /\ \A i \in 1..Len(commits) : resolves(commits[i])
    /\ commits' = sorted_by_time(commits)
    /\ items' = commits'
    /\ pull_times_sorted' =
           IF pull_times /= <<>> THEN sorted_instants(pull_times) ELSE <<>>
    /\ current' = new_session(items'[1], pull_times_sorted')
    /\ sessions' = <<>>
    /\ idx' = 2
    /\ pc' = "cws_loop"
    /\ UNCHANGED <<gap_minutes, pull_times, dps_vars, fw_vars>>
CwsStart ==
    /\ pc = "cws_call"
    /\ commits /= <<>>
    /\ \A i \in 1..Len(commits) : resolves(commits[i])
    /\ items' = sorted_by_time(commits)
    /\ pull_times_sorted' =
           IF pull_times /= <<>> THEN sorted_instants(pull_times) ELSE <<>>
    /\ current' = new_session(items'[1], pull_times_sorted')
    /\ sessions' = <<>>
    /\ idx' = 2
    /\ pc' = "cws_loop"
    /\ UNCHANGED <<commits, gap_minutes, pull_times, dps_vars, fw_vars>>

\* loop body, the commit extends the open session
CwsExtend ==
    /\ pc = "cws_loop"
    /\ idx <= Len(items)
    /\ within_gap(current, commit_time_dt(items[idx]), gap_minutes)
    /\ current' = [current EXCEPT !.end = commit_time_dt(items[idx]),
                                  !.commits = Append(@, items[idx])]
    /\ idx' = idx + 1
    /\ UNCHANGED <<pc, commits, gap_minutes, pull_times, items,
                   pull_times_sorted, sessions, dps_vars, fw_vars>>

\* loop body, the commit closes the open session and opens the next
CwsSplit ==
    /\ pc = "cws_loop"
    /\ idx <= Len(items)
    /\ ~within_gap(current, commit_time_dt(items[idx]), gap_minutes)
    /\ sessions' = Append(sessions, closed(current))
    /\ current' = next_session(items[idx], pull_times_sorted)
    /\ idx' = idx + 1
    /\ UNCHANGED <<pc, commits, gap_minutes, pull_times, items,
                   pull_times_sorted, dps_vars, fw_vars>>

\* after the loop: close the last session and return
CwsFinish ==
    /\ pc = "cws_loop"
    /\ idx > Len(items)
    /\ sessions' = Append(sessions, closed(current))
    /\ pc' = "cws_done"
    /\ UNCHANGED <<commits, gap_minutes, pull_times, items, pull_times_sorted,
                   idx, current, dps_vars, fw_vars>>

NextSessions ==
    \/ CwsEmpty
    \/ CwsRaise
    \/ CwsStart
    \/ CwsExtend
    \/ CwsSplit
    \/ CwsFinish

\* The same function as one operator, for comparing two calls: the loop
\* "for c in items[1:]" from position i with the open session cur and the
\* closed sessions done, then the closing of the last session.
RECURSIVE sessions_loop(_, _, _, _, _, _)
sessions_loop(its, i, cur, done, gapmin, pts) ==
    IF i > Len(its) THEN Append(done, closed(cur))
    ELSE IF within_gap(cur, commit_time_dt(its[i]), gapmin)
         THEN sessions_loop(its, i + 1,
                            [cur EXCEPT !.end = commit_time_dt(its[i]),
                                        !.commits = Append(@, its[i])],
                            done, gapmin, pts)
         ELSE sessions_loop(its, i + 1, next_session(its[i], pts),
                            Append(done, closed(cur)), gapmin, pts)

\* the function from its two sorts on: the first session, the loop, the
\* closing of the last session
sessions_of_sorted(its, gapmin, ps) ==
    sessions_loop(its, 2, new_session(its[1], ps), <<>>, gapmin, ps)

\* "sorted(pull_times) if pull_times else []"
sorted_pulls(pts) == IF pts /= <<>> THEN sorted_instants(pts) ELSE <<>>

\* compute_work_sessions(cs, gapmin, pts) for commits that all resolve
compute_work_sessions(cs, gapmin, pts) ==
    IF cs = <<>> THEN <<>>
    ELSE sessions_of_sorted(sorted_by_time(cs), gapmin, sorted_pulls(pts))

----------------------------------------------------------------------------
(* Inputs of compute_work_sessions *)

\* the first commit instant lies one lookback window and one minute after 0,
\* so that marks exactly and just over 120 minutes earlier exist
Origin == PULL_LOOKBACK_MINUTES * SecondsPerMinute + SecondsPerMinute

\* half a minute, one minute and two minutes after the first
CommitInstants == {Origin, Origin + 30, Origin + 60, Origin + 120}

\* just over and exactly 120 minutes before Origin, just before it, at it,
\* and between the later commits
PullInstants == {Origin - PULL_LOOKBACK_MINUTES * SecondsPerMinute - 30,
                 Origin - PULL_LOOKBACK_MINUTES * SecondsPerMinute,
                 Origin - 30, Origin, Origin + 90}

GapChoices == {0, 1, 2}

\* the message "feat: x"
MsgFeatX == <<"f", "e", "a", "t", ":", " ", "x">>

\* a commit as parse_git_log builds it from "%ad" and "%at"
GitCommit(t) ==
    [date_epoch |-> Some(t - LocalUtcOffset),
     date       |-> [fmt |-> "tz", clock |-> t, utcoff |-> LocalUtcOffset],
     message    |-> MsgFeatX]

\* no epoch and a date no parse accepts
BadCommit ==
    [date_epoch |-> None,
     date       |-> [fmt |-> "bad", clock |-> 0, utcoff |-> 0],
     message    |-> MsgFeatX]

CommitKinds == {GitCommit(t) : t \in CommitInstants} \cup {BadCommit}

\* the i-th commit of a list carries sha i
WithSha(ks) ==
    [i \in 1..Len(ks) |->
        [sha |-> i, date_epoch |-> ks[i].date_epoch, date |-> ks[i].date,
         message |-> ks[i].message]]

CommitLists ==
    {WithSha(ks) : ks \in UNION {[1..n -> CommitKinds] : n \in 0..MaxCommits}}

\* get_pull_operations returns sorted(list(set(pull_times)))
PullLists ==
    {sorted_instants(ps) :
        ps \in {q \in UNION {[1..n -> PullInstants] : n \in 0..MaxPulls} :
                    \A i, j \in 1..Len(q) : i < j => q[i] < q[j]}}

DpsIdle ==
    /\ repo_to_sessions = <<>>
    /\ all_periods = <<>>
    /\ pidx = 0
    /\ current_overlaps = <<>>
    /\ merged_overlaps = <<>>
    /\ cidx = 0
    /\ qidx = 0
    /\ final_merged = <<>>
    /\ markers = <<>>

FwIdle ==
    /\ windows = <<>>
    /\ widx = 0
    /\ fw_t = None

CwsIdle ==
    /\ commits = <<>>
    /\ gap_minutes = 0
    /\ pull_times = <<>>
    /\ items = <<>>
    /\ pull_times_sorted = <<>>
    /\ idx = 0
    /\ current = NoSession
    /\ sessions = <<>>

InitSessions ==
    /\ pc = "cws_call"
    /\ commits \in CommitLists
    /\ gap_minutes \in GapChoices
    /\ pull_times \in PullLists
    /\ items = <<>>
    /\ pull_times_sorted = <<>>
    /\ idx = 0
    /\ current = NoSession
    /\ sessions = <<>>
    /\ DpsIdle
    /\ FwIdle

SpecSessions == InitSessions /\ [][NextSessions]_vars

----------------------------------------------------------------------------
(* detect_parallel_sessions *)

\* "for repo, sessions in repo_to_sessions.items(): for s in sessions:
\*  all_periods.append({start, end, repo, session})"
RECURSIVE periods_of(_, _)
periods_of(repo, ss) ==
    IF ss = <<>> THEN <<>>
    ELSE <<[start |-> ss[1].start, end |-> ss[1].end, repo |-> repo,
            session |-> ss[1]]>> \o periods_of(repo, Tail(ss))

RECURSIVE flatten(_)
flatten(rts) ==
    IF rts = <<>> THEN <<>>
    ELSE periods_of(rts[1].repo, rts[1].sessions) \o flatten(Tail(rts))

\* the sort key "(x['start'], x['end'])", compared as tuples
key_le(a, b) == a.start < b.start \/ (a.start = b.start /\ a.end <= b.end)

RECURSIVE insert_period(_, _)
insert_period(s, p) ==
    IF s = <<>> THEN <<p>>
    ELSE IF key_le(Last(s), p) THEN Append(s, p)
    ELSE Append(insert_period(SubSeq(s, 1, Len(s) - 1), p), Last(s))

RECURSIVE insert_period_desc(_, _)
insert_period_desc(s, p) ==
    IF s = <<>> THEN <<p>>
    ELSE IF key_le(p, Last(s)) THEN Append(s, p)
    ELSE Append(insert_period_desc(SubSeq(s, 1, Len(s) - 1), p), Last(s))

RECURSIVE sort_by_start_end_desc(_)
sort_by_start_end_desc(s) ==
    IF s = <<>> THEN <<>>
    ELSE insert_period_desc(sort_by_start_end_desc(SubSeq(s, 1, Len(s) - 1)), Last(s))

\* list.sort(key=lambda x: (x['start'], x['end'])), stable
sort_by_start_end_asis(s) == s

RECURSIVE sort_by_start_end(_)
sort_by_start_end(s) ==
    IF s = <<>> THEN <<>>
    ELSE insert_period(sort_by_start_end(SubSeq(s, 1, Len(s) - 1)), Last(s))

\* "not (period['end'] < existing['start'] or period['start'] > existing['end'])"
overlaps_open(p, e) == ~(p.end <= e.start \/ p.start >= e.end)
overlaps(p, e) == ~(p.end < e.start \/ p.start > e.end)

\* the loop over current_overlaps that sets can_merge
can_merge(period, group) ==
    \E k \in 1..Len(group) : overlaps(period, group[k])

\* "set(p['repo'] for p in current_overlaps)"
repos_of(group) == {group[k].repo : k \in 1..Len(group)}

\* "len(set(p['repo'] for p in current_overlaps)) > 1"
spans_projects_members(group) == Len(group) > 1
spans_projects_any(group) == Cardinality(repos_of(group)) >= 1
spans_projects(group) == Cardinality(repos_of(group)) > 1

\* sorted(S) of a set of projects
RECURSIVE sorted_set(_)
sorted_set(S) ==
    IF S = {} THEN <<>>
    ELSE LET m == CHOOSE x \in S : \A y \in S : x <= y
         IN  <<m>> \o sorted_set(S \ {m})

min_start_last(group) == Last(group).start
min_start(group) ==
    CHOOSE t \in {group[k].start : k \in 1..Len(group)} :
        \A k \in 1..Len(group) : t <= group[k].start
max_end(group) ==
    CHOOSE t \in {group[k].end : k \in 1..Len(group)} :
        \A k \in 1..Len(group) : t >= group[k].end

\* "int((overlap_end - overlap_start).total_seconds() // 60)"
period_minutes_min1(start, end) == Max(1, (end - start) \div SecondsPerMinute)
period_minutes(start, end) == (end - start) \div SecondsPerMinute

\* the dict appended to merged_overlaps for a group
overlap_of(group) ==
    [start |-> min_start(group),
     end |-> max_end(group),
     repos |-> sorted_set(repos_of(group)),
     duration_minutes |-> period_minutes(min_start(group), max_end(group))]

\* merged_overlaps after a group is over
close_group(merged, group) ==
    IF spans_projects(group) THEN Append(merged, overlap_of(group)) ELSE merged

\* "gap <= 5 or not (next_period['end'] < current['start']
\*               or next_period['start'] > current['end'])"
mergeable_touching(cur, nxt) ==
    ~(nxt.end < cur.start \/ nxt.start > cur.end)
mergeable_strict(cur, nxt) ==
    \/ nxt.start - cur.end < MERGE_GRACE_MINUTES * SecondsPerMinute
    \/ ~(nxt.end < cur.start \/ nxt.start > cur.end)
mergeable(cur, nxt) ==
    \/ nxt.start - cur.end <= MERGE_GRACE_MINUTES * SecondsPerMinute
    \/ ~(nxt.end < cur.start \/ nxt.start > cur.end)

\* the four assignments of the merge branch
merged_period(cur, nxt) ==
    [start |-> Min(cur.start, nxt.start),
     end |-> Max(cur.end, nxt.end),
     repos |-> sorted_set(SeqToSet(cur.repos) \cup SeqToSet(nxt.repos)),
     duration_minutes |->
         period_minutes(Min(cur.start, nxt.start), Max(cur.end, nxt.end))]

\* "final_merged.append(current)"
emit_front(final, cur) == <<cur>> \o final
emit(final, cur) == Append(final, cur)

\* "if len(repo_to_sessions) < 2: return []"
DpsFew ==
    /\ pc = "dps_call"
    /\ Len(repo_to_sessions) < 2
    /\ final_merged' = <<>>
    /\ pc' = "dps_done"
    /\ UNCHANGED <<cws_vars, fw_vars, markers, repo_to_sessions, all_periods, pidx,
                   current_overlaps, merged_overlaps, cidx, qidx>>

\* "if not all_periods: return []"
DpsNoPeriods ==
    /\ pc = "dps_call"
    /\ Len(repo_to_sessions) >= 2
    /\ flatten(repo_to_sessions) = <<>>
    /\ final_merged' = <<>>
    /\ pc' = "dps_done"
    /\ UNCHANGED <<cws_vars, fw_vars, markers, repo_to_sessions, all_periods, pidx,
                   current_overlaps, merged_overlaps, cidx, qidx>>

\* flatten and sort, enter the phase-1 loop
DpsFlatten ==
    /\ pc = "dps_call"
    /\ Len(repo_to_sessions) >= 2
    /\ flatten(repo_to_sessions) /= <<>>
    /\ all_periods' = sort_by_start_end(flatten(repo_to_sessions))
    /\ merged_overlaps' = <<>>
    /\ current_overlaps' = <<>>
    /\ pidx' = 1
    /\ pc' = "dps_phase1"
    /\ UNCHANGED <<cws_vars, fw_vars, markers, repo_to_sessions, cidx, qidx, final_merged>>

\* "if not current_overlaps: current_overlaps = [period]; continue"
DpsGroupFirst ==
    /\ pc = "dps_phase1"
    /\ pidx <= Len(all_periods)
    /\ current_overlaps = <<>>
    /\ current_overlaps' = <<all_periods[pidx]>>
    /\ pidx' = pidx + 1
    /\ UNCHANGED <<pc, cws_vars, fw_vars, markers, repo_to_sessions, all_periods,
                   merged_overlaps, cidx, qidx, final_merged>>

\* "if can_merge: current_overlaps.append(period)"
DpsGroupJoin ==
    /\ pc = "dps_phase1"
    /\ pidx <= Len(all_periods)
    /\ current_overlaps /= <<>>
    /\ can_merge(all_periods[pidx], current_overlaps)
    /\ current_overlaps' = Append(current_overlaps, all_periods[pidx])
    /\ pidx' = pidx + 1
    /\ UNCHANGED <<pc, cws_vars, fw_vars, markers, repo_to_sessions, all_periods,
                   merged_overlaps, cidx, qidx, final_merged>>

\* "else:" the group is over; the period starts the next group
DpsGroupClose ==
    /\ pc = "dps_phase1"
    /\ pidx <= Len(all_periods)
    /\ current_overlaps /= <<>>
    /\ ~can_merge(all_periods[pidx], current_overlaps)
    /\ merged_overlaps' = close_group(merged_overlaps, current_overlaps)
    /\ current_overlaps' = <<all_periods[pidx]>>
    /\ pidx' = pidx + 1
    /\ UNCHANGED <<pc, cws_vars, fw_vars, markers, repo_to_sessions, all_periods,
                   cidx, qidx, final_merged>>

\* the last group, then "if not merged_overlaps: return []"
DpsNoOverlap ==
    /\ pc = "dps_phase1"
    /\ pidx > Len(all_periods)
    /\ close_group(merged_overlaps, current_overlaps) = <<>>
    /\ final_merged' = <<>>
    /\ pc' = "dps_done"
    /\ UNCHANGED <<cws_vars, fw_vars, markers, repo_to_sessions, all_periods, pidx,
                   current_overlaps, merged_overlaps, cidx, qidx>>

\* the last group, the second sort, "current = merged_overlaps[0]"
DpsPhase2 ==
    /\ pc = "dps_phase1"
    /\ pidx > Len(all_periods)
    /\ close_group(merged_overlaps, current_overlaps) /= <<>>
    /\ merged_overlaps' =
           sort_by_start_end(close_group(merged_overlaps, current_overlaps))
    /\ final_merged' = <<>>
    /\ cidx' = 1
    /\ qidx' = 2
    /\ pc' = "dps_phase2"
    /\ UNCHANGED <<cws_vars, fw_vars, markers, repo_to_sessions, all_periods, pidx,
                   current_overlaps>>

\* merge branch: current is a member of merged_overlaps and is updated in place
DpsMerge ==
    /\ pc = "dps_phase2"
    /\ qidx <= Len(merged_overlaps)
    /\ mergeable(merged_overlaps[cidx], merged_overlaps[qidx])
    /\ merged_overlaps' =
           [merged_overlaps EXCEPT
               ![cidx] = merged_period(merged_overlaps[cidx], merged_overlaps[qidx])]
    /\ qidx' = qidx + 1
    /\ UNCHANGED <<pc, cws_vars, fw_vars, markers, repo_to_sessions, all_periods, pidx,
                   current_overlaps, cidx, final_merged>>

\* "else: final_merged.append(current); current = next_period"
DpsEmit ==
    /\ pc = "dps_phase2"
    /\ qidx <= Len(merged_overlaps)
    /\ ~mergeable(merged_overlaps[cidx], merged_overlaps[qidx])
    /\ final_merged' = emit(final_merged, merged_overlaps[cidx])
    /\ cidx' = qidx
    /\ qidx' = qidx + 1
    /\ UNCHANGED <<pc, cws_vars, fw_vars, markers, repo_to_sessions, all_periods, pidx,
                   current_overlaps, merged_overlaps>>

\* "final_merged.append(current); return final_merged"
DpsReturn ==
    /\ pc = "dps_phase2"
    /\ qidx > Len(merged_overlaps)
    /\ final_merged' = emit(final_merged, merged_overlaps[cidx])
    /\ pc' = "dps_done"
    /\ UNCHANGED <<cws_vars, fw_vars, markers, repo_to_sessions, all_periods, pidx,
                   current_overlaps, merged_overlaps, cidx, qidx>>

NextParallel ==
    \/ DpsFew
    \/ DpsNoPeriods
    \/ DpsFlatten
    \/ DpsGroupFirst
    \/ DpsGroupJoin
    \/ DpsGroupClose
    \/ DpsNoOverlap
    \/ DpsPhase2
    \/ DpsMerge
    \/ DpsEmit
    \/ DpsReturn

\* The same function as one operator, for comparing two calls: phase 1 from
\* position i of the sorted periods with the open group and the periods
\* closed so far, and phase 2 from position q with the period "current".
RECURSIVE group_loop(_, _, _, _)
group_loop(ps, i, group, merged) ==
    IF i > Len(ps) THEN close_group(merged, group)
    ELSE IF group = <<>> THEN group_loop(ps, i + 1, <<ps[i]>>, merged)
    ELSE IF can_merge(ps[i], group)
         THEN group_loop(ps, i + 1, Append(group, ps[i]), merged)
         ELSE group_loop(ps, i + 1, <<ps[i]>>, close_group(merged, group))

RECURSIVE merge_loop(_, _, _, _)
merge_loop(mo, cur, q, final) ==
    IF q > Len(mo) THEN emit(final, cur)
    ELSE IF mergeable(cur, mo[q])
         THEN merge_loop(mo, merged_period(cur, mo[q]), q + 1, final)
         ELSE merge_loop(mo, mo[q], q + 1, emit(final, cur))

detect_parallel_sessions(rts) ==
    IF Len(rts) < 2 THEN <<>>
    ELSE LET ps == flatten(rts)
         IN  IF ps = <<>> THEN <<>>
             ELSE LET mo == sort_by_start_end(
                                group_loop(sort_by_start_end(ps), 1, <<>>, <<>>))
                  IN  IF mo = <<>> THEN <<>> ELSE merge_loop(mo, mo[1], 2, <<>>)

----------------------------------------------------------------------------
(* Inputs of detect_parallel_sessions *)

Repos == {1, 2, 3}

\* [0,60] and [30,90] overlap in part, [30,90] and [90,120] share one
\* instant, [0,60] and [90,120] are apart; [390,420] and [420,420] lie
\* 4.5 to 6 minutes after the ends of the first three
SessionSpans ==
    {[start |-> 0, end |-> 60], [start |-> 30, end |-> 90],
     [start |-> 90, end |-> 120], [start |-> 390, end |-> 420],
     [start |-> 420, end |-> 420]}

\* the ways to cut a list of n sessions into k consecutive lists
Cuts(k, n) ==
    {c \in [0..k -> 0..n] :
        c[0] = 0 /\ c[k] = n /\ \A i \in 1..k : c[i - 1] <= c[i]}

\* the dict with keys 1..k, in that order, whose lists are the pieces of f
RepoMap(k, f, c) ==
    [i \in 1..k |->
        [repo |-> i, sessions |-> SubSeq(f, c[i - 1] + 1, c[i])]]

\* every dict of 0 to 3 projects holding at most MaxSessions sessions in
\* all, the sessions of a project in any order
InitParallel ==
    /\ pc = "dps_call"
    /\ \E k \in 0..Cardinality(Repos), n \in 0..MaxSessions :
           \E f \in [1..n -> SessionSpans], c \in Cuts(k, n) :
               repo_to_sessions = RepoMap(k, f, c)
    /\ all_periods = <<>>
    /\ pidx = 0
    /\ current_overlaps = <<>>
    /\ merged_overlaps = <<>>
    /\ cidx = 0
    /\ qidx = 0
    /\ final_merged = <<>>
    /\ markers = <<>>
    /\ CwsIdle
    /\ FwIdle

SpecParallel == InitParallel /\ [][NextParallel]_vars

\* three of the spans: with few spans to draw from, sessions of equal
\* (start, end) in several projects are the rule
TieSpans ==
    {[start |-> 0, end |-> 60], [start |-> 30, end |-> 90],
     [start |-> 390, end |-> 420]}

InitParallelTies ==
    /\ pc = "dps_call"
    /\ \E k \in 0..Cardinality(Repos), n \in 0..MaxSessions :
           \E f \in [1..n -> TieSpans], c \in Cuts(k, n) :
               repo_to_sessions = RepoMap(k, f, c)
    /\ all_periods = <<>>
    /\ pidx = 0
    /\ current_overlaps = <<>>
    /\ merged_overlaps = <<>>
    /\ cidx = 0
    /\ qidx = 0
    /\ final_merged = <<>>
    /\ markers = <<>>
    /\ CwsIdle
    /\ FwIdle

SpecParallelTies == InitParallelTies /\ [][NextParallel]_vars

----------------------------------------------------------------------------
(* The parallel marker of build_commit_context_by_project and             *)
(* render_multi_project_worklog                                            *)

\* "any(not (s['end'] < pp['start'] or s['start'] > pp['end'])
\*      for pp in parallel_periods if repo_name in pp['repos'])"
is_parallel(repo_name, s, parallel_periods) ==
    \E i \in 1..Len(parallel_periods) :
        /\ repo_name \in SeqToSet(parallel_periods[i].repos)
        /\ ~(s.end < parallel_periods[i].start
              \/ s.start > parallel_periods[i].end)

\* after "parallel_periods = detect_parallel_sessions(repo_to_sessions)":
\* the loop over the projects and their sessions that sets parallel_marker
RenderMarkers ==
    /\ pc = "dps_done"
    /\ markers' =
           [r \in 1..Len(repo_to_sessions) |->
               [j \in 1..Len(repo_to_sessions[r].sessions) |->
                   is_parallel(repo_to_sessions[r].repo,
                               repo_to_sessions[r].sessions[j], final_merged)]]
    /\ pc' = "report_done"
    /\ UNCHANGED <<cws_vars, fw_vars, repo_to_sessions, all_periods, pidx,
                   current_overlaps, merged_overlaps, cidx, qidx, final_merged>>

NextReport == NextParallel \/ RenderMarkers

\* the most sessions, over all projects, of a report
MaxReportSessions == 5

\* a minute of work, twenty seconds of work 70 seconds later, an instant
\* exactly five minutes after the end of the first, and an instant more than
\* five minutes after that one
ReportSpans ==
    {[start |-> 0, end |-> 60], [start |-> 130, end |-> 150],
     [start |-> 360, end |-> 360], [start |-> 661, end |-> 661]}

InitReport ==
    /\ pc = "dps_call"
    /\ \E k \in 0..Cardinality(Repos), n \in 0..MaxReportSessions :
           \E f \in [1..n -> ReportSpans], c \in Cuts(k, n) :
               repo_to_sessions = RepoMap(k, f, c)
    /\ all_periods = <<>>
    /\ pidx = 0
    /\ current_overlaps = <<>>
    /\ merged_overlaps = <<>>
    /\ cidx = 0
    /\ qidx = 0
    /\ final_merged = <<>>
    /\ markers = <<>>
    /\ CwsIdle
    /\ FwIdle

SpecReport == InitReport /\ [][NextReport]_vars

----------------------------------------------------------------------------
(* compute_feature_windows *)

\* the characters str.strip() removes that the messages here can hold
Whitespace == {" ", "\t", "\n", "\r"}

UpperCase == <<"A", "B", "C", "D", "E", "F", "G", "H", "I", "J", "K", "L", "M",
               "N", "O", "P", "Q", "R", "S", "T", "U", "V", "W", "X", "Y", "Z">>
LowerCase == <<"a", "b", "c", "d", "e", "f", "g", "h", "i", "j", "k", "l", "m",
               "n", "o", "p", "q", "r", "s", "t", "u", "v", "w", "x", "y", "z">>

\* msg.strip()
RECURSIVE lstrip(_)
lstrip(s) ==
    IF s /= <<>> /\ s[1] \in Whitespace THEN lstrip(Tail(s)) ELSE s

RECURSIVE rstrip(_)
rstrip(s) ==
    IF s /= <<>> /\ Last(s) \in Whitespace
    THEN rstrip(SubSeq(s, 1, Len(s) - 1)) ELSE s

strip(s) == rstrip(lstrip(s))

\* s.split(sep, 1)[0] and s.split(sep)[0]: the text before the first sep,
\* all of s when it holds none
RECURSIVE split_first(_, _)
split_first(s, sep) ==
    IF s = <<>> \/ s[1] = sep THEN <<>>
    ELSE <<s[1]>> \o split_first(Tail(s), sep)

\* s.lower()
LowerOf ==
    [ch \in SeqToSet(UpperCase) |->
        LowerCase[CHOOSE k \in 1..Len(UpperCase) : UpperCase[k] = ch]]
lower(s) ==
    [i \in 1..Len(s) |-> IF s[i] \in DOMAIN LowerOf THEN LowerOf[s[i]] ELSE s[i]]

\* "token = msg.split(':', 1)[0].lower().split(' ')[0]"
token_of(msg) == split_first(lower(split_first(msg, ":")), " ")

Whitelist ==
    {<<"f", "e", "a", "t">>, <<"f", "i", "x">>, <<"d", "o", "c", "s">>,
     <<"b", "u", "i", "l", "d">>, <<"r", "e", "f", "a", "c", "t", "o", "r">>,
     <<"c", "h", "o", "r", "e">>, <<"p", "e", "r", "f">>,
     <<"t", "e", "s", "t">>}
Other == <<"o", "t", "h", "e", "r">>

\* "key = token if token in [...] else 'other'" for the message of commit c
key_of(c) ==
    LET token == token_of(strip(c.message))
    IN  IF token \in Whitelist THEN token ELSE Other

\* "windows[key] = {'start': t, 'end': t, 'count': 1}"
opened(ws, key, t) ==
    [k \in DOMAIN ws \cup {key} |->
        IF k = key THEN [start |-> t, end |-> t, count |-> 1] ELSE ws[k]]

\* the else branch: start and end move to t when t lies outside, count + 1
widened_first(ws, key, t) ==
    [ws EXCEPT ![key] = [start |-> @.start,
                         end   |-> IF t > @.end THEN t ELSE @.end,
                         count |-> @.count + 1]]
widened_once(ws, key, t) ==
    [ws EXCEPT ![key] = [start |-> IF t < @.start THEN t ELSE @.start,
                         end   |-> IF t > @.end THEN t ELSE @.end,
                         count |-> @.count]]
widened(ws, key, t) ==
    [ws EXCEPT ![key] = [start |-> IF t < @.start THEN t ELSE @.start,
                         end   |-> IF t > @.end THEN t ELSE @.end,
                         count |-> @.count + 1]]

\* one iteration of "for c in commits" for a commit that resolves
folded(ws, c) ==
    LET key == key_of(c)
        t   == commit_time_dt(c)
    IN  IF key \in DOMAIN ws THEN widened(ws, key, t) ELSE opened(ws, key, t)

\* commit_time_dt(c) raises out of compute_feature_windows
FwRaise ==
    /\ pc = "fw_loop"
    /\ widx <= Len(commits)
    /\ ~resolves(commits[widx])
    /\ pc' = "fw_raised"
    /\ UNCHANGED <<cws_vars, dps_vars, fw_vars>>

\* loop body, "if not w": the first event of its key
FwOpen ==
    /\ pc = "fw_loop"
    /\ widx <= Len(commits)
    /\ resolves(commits[widx])
    /\ key_of(commits[widx]) \notin DOMAIN windows
    /\ fw_t' = Some(commit_time_dt(commits[widx]))
    /\ windows' = opened(windows, key_of(commits[widx]), fw_t'[1])
    /\ widx' = widx + 1
    /\ UNCHANGED <<pc, cws_vars, dps_vars>>

\* loop body, a later event of its key
FwWiden ==
    /\ pc = "fw_loop"
    /\ widx <= Len(commits)
    /\ resolves(commits[widx])
    /\ key_of(commits[widx]) \in DOMAIN windows
    /\ fw_t' = Some(commit_time_dt(commits[widx]))
    /\ windows' = widened(windows, key_of(commits[widx]), fw_t'[1])
    /\ widx' = widx + 1
    /\ UNCHANGED <<pc, cws_vars, dps_vars>>

\* "return windows"
FwReturn ==
    /\ pc = "fw_loop"
    /\ widx > Len(commits)
    /\ pc' = "fw_done"
    /\ UNCHANGED <<cws_vars, dps_vars, fw_vars>>

NextWindows ==
    \/ FwRaise
    \/ FwOpen
    \/ FwWiden
    \/ FwReturn

\* The same function as one operator, for comparing two calls, for commits
\* that all resolve
RECURSIVE compute_feature_windows(_)
compute_feature_windows(cs) ==
    IF cs = <<>> THEN <<>>
    ELSE folded(compute_feature_windows(SubSeq(cs, 1, Len(cs) - 1)), Last(cs))

----------------------------------------------------------------------------
(* Inputs of compute_feature_windows *)

\* the messages "feat: add x" and "feat(ui): y"
MsgFeatAddX == <<"f", "e", "a", "t", ":", " ", "a", "d", "d", " ", "x">>
MsgFeatUiY == <<"f", "e", "a", "t", "(", "u", "i", ")", ":", " ", "y">>

\* those two, "Fix bug", "docs" tab "x: y", "" and "wip: test"
Messages ==
    {MsgFeatAddX, MsgFeatUiY,
     <<"F", "i", "x", " ", "b", "u", "g">>,
     <<"d", "o", "c", "s", "\t", "x", ":", " ", "y">>,
     <<>>,
     <<"w", "i", "p", ":", " ", "t", "e", "s", "t">>}

\* an event with the given message whose epoch and date text agree on t
Event(msg, t) ==
    [date_epoch |-> Some(t - LocalUtcOffset),
     date       |-> [fmt |-> "tz", clock |-> t, utcoff |-> LocalUtcOffset],
     message    |-> msg]

\* an event with the given epoch field and a date text of format f that
\* spells half a minute after Origin, in UTC when it spells a zone
OddEvent(e, f) ==
    [date_epoch |-> e,
     date       |-> [fmt |-> f, clock |-> Origin + 30, utcoff |-> 0],
     message    |-> MsgFeatX]

\* events whose epoch and date text do not agree: epoch 0 beside a date
\* that parses and one that does not, no epoch beside each kind of date
\* text, and an epoch beside a date no parse accepts
OddEvents ==
    {OddEvent(Some(0), "bare"), OddEvent(Some(0), "bad"),
     OddEvent(None, "tz"), OddEvent(None, "bare"), OddEvent(None, "iso"),
     OddEvent(None, "bad"), OddEvent(Some(Origin - LocalUtcOffset), "bad")}

\* every message at Origin, the two feat messages also half a minute later
EventKinds ==
    {Event(msg, Origin) : msg \in Messages}
    \cup {Event(msg, Origin + 30) : msg \in {MsgFeatAddX, MsgFeatUiY}}
    \cup OddEvents

EventLists ==
    {WithSha(ks) : ks \in UNION {[1..n -> EventKinds] : n \in 0..MaxCommits}}

InitWindows ==
    /\ pc = "fw_loop"
    /\ commits \in EventLists
    /\ gap_minutes = 0
    /\ pull_times = <<>>
    /\ items = <<>>
    /\ pull_times_sorted = <<>>
    /\ idx = 0
    /\ current = NoSession
    /\ sessions = <<>>
    /\ DpsIdle
    /\ windows = <<>>
    /\ widx = 1
    /\ fw_t = None

SpecWindows == InitWindows /\ [][NextWindows]_vars

----------------------------------------------------------------------------
(* One call of any of the three functions; the sessions of the projects  *)
(* are drawn from TieSpans                                                 *)

InitCore == InitSessions \/ InitWindows \/ InitParallelTies

NextCore == NextSessions \/ NextWindows \/ NextParallel

SpecCore == InitCore /\ [][NextCore]_vars

----------------------------------------------------------------------------
(* Claims about compute_work_sessions, checked under SpecSessions *)

Returned == pc = "cws_done"
first_instant(s) == commit_time_dt(s.commits[1])
gap_seconds == gap_minutes * SecondsPerMinute

\* C1: every session returned has start <= end and duration_minutes =
\* max(1, floor((end - start) / 60 s)), also after its start was back-dated
\* to a pull mark; a session whose start equals its end has duration 1.
C1_SessionDuration ==
    Returned =>
        \A i \in 1..Len(sessions) :
            /\ sessions[i].start <= sessions[i].end
            /\ sessions[i].duration_minutes >= 1
            /\ sessions[i].duration_minutes * SecondsPerMinute
                   <= Max(SecondsPerMinute, sessions[i].end - sessions[i].start)
            /\ sessions[i].end - sessions[i].start
                   < (sessions[i].duration_minutes + 1) * SecondsPerMinute
            /\ sessions[i].start = sessions[i].end
                   => sessions[i].duration_minutes = 1

\* a returned list with a one-instant session of duration 1 and a session
\* back-dated by more than a minute whose duration counts from the pull mark
C1_Witness ==
    /\ Returned
    /\ \E i \in 1..Len(sessions) :
           sessions[i].start = sessions[i].end /\ sessions[i].duration_minutes = 1
    /\ \E i \in 1..Len(sessions) :
           /\ sessions[i].start < first_instant(sessions[i])
           /\ sessions[i].duration_minutes >= 2
           /\ sessions[i].end - first_instant(sessions[i]) < SecondsPerMinute

\* C2: for adjacent returned sessions i, i+1 the instant of the first event
\* of session i+1 (its start before any pull adjustment) minus the end of
\* session i is strictly greater than gap_minutes.
C2_AdjacentGap ==
    Returned =>
        \A i \in 1..(Len(sessions) - 1) :
            first_instant(sessions[i + 1]) - sessions[i].end > gap_seconds

\* two sessions whose first events are more than the gap apart while the
\* back-dated start of the second is not
C2_Witness ==
    /\ Returned
    /\ gap_minutes >= 1
    /\ Len(sessions) >= 2
    /\ sessions[2].start < first_instant(sessions[2])
    /\ sessions[2].start - sessions[1].end <= gap_seconds

\* C3: within every returned session each event's instant minus that of the
\* event before it in the session is <= gap_minutes; the comparison is with
\* the latest member and inclusive: an event exactly gap_minutes after the
\* previous one is never the first event of the next session.
C3_WithinGap ==
    Returned =>
        /\ \A i \in 1..Len(sessions) :
               \A j \in 2..Len(sessions[i].commits) :
                   commit_time_dt(sessions[i].commits[j])
                     - commit_time_dt(sessions[i].commits[j - 1]) <= gap_seconds
        /\ \A i \in 1..(Len(sessions) - 1) :
               first_instant(sessions[i + 1])
                 - commit_time_dt(Last(sessions[i].commits)) /= gap_seconds

\* a session that holds an event exactly gap_minutes after the one before
\* it and spans more than gap_minutes in all
C3_Witness ==
    /\ Returned
    /\ gap_minutes >= 1
    /\ \E i \in 1..Len(sessions) :
           /\ \E j \in 2..Len(sessions[i].commits) :
                  commit_time_dt(sessions[i].commits[j])
                    - commit_time_dt(sessions[i].commits[j - 1]) = gap_seconds
           /\ commit_time_dt(Last(sessions[i].commits))
                - first_instant(sessions[i]) > gap_seconds

\* how many members of sequence s are equal to x
RECURSIVE count_in(_, _)
count_in(s, x) ==
    IF s = <<>> THEN 0
    ELSE (IF s[1] = x THEN 1 ELSE 0) + count_in(Tail(s), x)

RECURSIVE session_commits(_)
session_commits(ss) ==
    IF ss = <<>> THEN <<>> ELSE ss[1].commits \o session_commits(Tail(ss))

\* C4: when the call is over, the 'commits' lists of the sessions hold,
\* with multiplicity, exactly the input commits whose timestamp resolves.
C4_CommitsPartition ==
    pc \in {"cws_done", "cws_raised"} =>
        \A i \in 1..Len(commits) :
            count_in(session_commits(sessions), commits[i])
              = (IF resolves(commits[i]) THEN count_in(commits, commits[i]) ELSE 0)

----------------------------------------------------------------------------
(* Claims about detect_parallel_sessions, checked under SpecParallel *)

ParallelReturned == pc = "dps_done"

\* the sessions of the argument, each with its project, in dict order
given == flatten(repo_to_sessions)

\* closed intervals [a.start, a.end] and [b.start, b.end] share an instant
share_instant(a, b) == a.start <= b.end /\ b.start <= a.end

\* the projects of period p with a session, among g, that contains instant t
projects_at(g, p, t) ==
    {r \in SeqToSet(p.repos) :
        \E i \in 1..Len(g) :
            g[i].repo = r /\ g[i].start <= t /\ t <= g[i].end}

\* C5: every period returned lists at least 2 distinct projects in 'repos';
\* sessions of one single project, even when they intersect each other,
\* never produce a period by themselves.
C5_TwoProjects ==
    ParallelReturned =>
        \A i \in 1..Len(final_merged) :
            /\ Cardinality(SeqToSet(final_merged[i].repos)) >= 2
            /\ Len(final_merged[i].repos) >= 2

\* a result with a period, from an argument in which two sessions of one
\* project intersect each other and lie in no period
C5_Witness ==
    /\ ParallelReturned
    /\ final_merged /= <<>>
    /\ LET g == given
       IN  \E i, j \in 1..Len(g) :
               /\ i /= j
               /\ g[i].repo = g[j].repo
               /\ share_instant(g[i], g[j])
               /\ \A k \in 1..Len(final_merged) :
                      ~share_instant(g[i], final_merged[k])

\* the sessions of g linked to those of S by a chain of intersections
RECURSIVE chained(_, _)
chained(g, S) ==
    LET T == S \cup {j \in 1..Len(g) :
                        \E i \in S : share_instant(g[i], g[j])}
    IN  IF T = S THEN S ELSE chained(g, T)

\* the chains of g that hold sessions of 2 or more projects
mixed_chains(g) ==
    {C \in {chained(g, {i}) : i \in 1..Len(g)} :
        \E i, j \in C : g[i].repo /= g[j].repo}

hull(g, C) ==
    [start |-> CHOOSE t \in {g[i].start : i \in C} :
                   \A i \in C : t <= g[i].start,
     end   |-> CHOOSE t \in {g[i].end : i \in C} :
                   \A i \in C : t >= g[i].end,
     repos |-> {g[i].repo : i \in C}]

span_and_repos(p) ==
    [start |-> p.start, end |-> p.end, repos |-> SeqToSet(p.repos)]

\* phase 1 is over and phase 2 has merged nothing yet
Phase1Over == pc = "dps_phase2" /\ qidx = 2

\* C6: phase 1 groups by chaining: a session joins the group when it
\* intersects at least one member, so sessions linked through a chain of
\* intersections (A with B, B with C, A apart from C) form one group; each
\* group of 2 or more projects gives exactly one raw period with start =
\* min of member starts, end = max of member ends and repos = the set of
\* member projects, and no other raw period exists.
C6_ChainedGroups ==
    /\ Phase1Over =>
           LET g == given
               chains == mixed_chains(g)
           IN  /\ {span_and_repos(merged_overlaps[k]) : k \in 1..Len(merged_overlaps)}
                    = {hull(g, C) : C \in chains}
               /\ Len(merged_overlaps) = Cardinality(chains)
    /\ (ParallelReturned /\ final_merged = <<>>) => mixed_chains(given) = {}

\* one raw period over three sessions of three projects of which the first
\* and the last are apart
C6_Witness ==
    /\ Phase1Over
    /\ Len(merged_overlaps) = 1
    /\ Len(merged_overlaps[1].repos) = 3
    /\ LET g == given
       IN  \E a, b, c \in 1..Len(g) :
               /\ share_instant(g[a], g[b])
               /\ share_instant(g[b], g[c])
               /\ ~share_instant(g[a], g[c])
               /\ merged_overlaps[1].start = g[a].start
               /\ merged_overlaps[1].end = g[c].end

projects_with_sessions(g) == {g[i].repo : i \in 1..Len(g)}

\* C8: the result is empty whenever fewer than 2 distinct projects have a
\* session: with 0 or 1 key, and with 2 or more keys of which at most one
\* has a non-empty list, however many sessions that project has.
C8_FewerThanTwoProjects ==
    (ParallelReturned /\ Cardinality(projects_with_sessions(given)) < 2)
        => final_merged = <<>>

\* 2 or more keys, one project with sessions that intersect each other
C8_Witness ==
    /\ ParallelReturned
    /\ Len(repo_to_sessions) >= 2
    /\ final_merged = <<>>
    /\ markers = <<>>
    /\ LET g == given
       IN  /\ Cardinality(projects_with_sessions(g)) = 1
           /\ \E i, j \in 1..Len(g) : i /= j /\ share_instant(g[i], g[j])

\* the instants at which a session of g starts or ends, and the instants
\* half a minute after each end
probe_instants(g) ==
    UNION {{g[i].start, g[i].end, g[i].end + 30} : i \in 1..Len(g)}

\* C9 as stated: at every instant of every period returned, sessions of at
\* least two distinct projects listed in the period contain the instant.
C9_EveryInstantShared ==
    (ParallelReturned /\ final_merged /= <<>>) =>
        LET g == given
        IN  \A k \in 1..Len(final_merged) :
                \A t \in probe_instants(g) :
                    (final_merged[k].start <= t /\ t <= final_merged[k].end)
                        => Cardinality(projects_at(g, final_merged[k], t)) >= 2

\* C9 amended: every period returned holds at least one instant that
\* sessions of at least two distinct projects listed in the period contain.
C9_SomeInstantShared ==
    (ParallelReturned /\ final_merged /= <<>>) =>
        LET g == given
        IN  \A k \in 1..Len(final_merged) :
                \E t \in probe_instants(g) :
                    /\ final_merged[k].start <= t
                    /\ t <= final_merged[k].end
                    /\ Cardinality(projects_at(g, final_merged[k], t)) >= 2

\* a period returned with an instant that two of its projects share and an
\* instant that no session contains
C9_Witness ==
    /\ ParallelReturned
    /\ LET g == given
       IN  \E k \in 1..Len(final_merged) :
               /\ \E t \in probe_instants(g) :
                      /\ final_merged[k].start <= t
                      /\ t <= final_merged[k].end
                      /\ Cardinality(projects_at(g, final_merged[k], t)) >= 2
               /\ \E t \in probe_instants(g) :
                      /\ final_merged[k].start <= t
                      /\ t <= final_merged[k].end
                      /\ projects_at(g, final_merged[k], t) = {}

\* C10: the list returned is sorted ascending by 'start', for any argument
\* and any order of the sessions inside it.
C10_SortedByStart ==
    ParallelReturned =>
        \A i, j \in 1..Len(final_merged) :
            i < j => final_merged[i].start <= final_merged[j].start

\* two periods returned for an argument in which a project lists a later
\* session before an earlier one
C10_Witness ==
    /\ ParallelReturned
    /\ Len(final_merged) >= 2
    /\ \E r \in 1..Len(repo_to_sessions) :
           \E a, b \in 1..Len(repo_to_sessions[r].sessions) :
               a < b /\ repo_to_sessions[r].sessions[a].start
                          > repo_to_sessions[r].sessions[b].start

----------------------------------------------------------------------------
(* Claims about the pull adjustment, checked under SpecSessions *)

lookback_seconds == PULL_LOOKBACK_MINUTES * SecondsPerMinute

\* the marks of the list pts at or before instant t and at most the lookback
\* window before it
marks_in_window(pts, t) ==
    {m \in SeqToSet(pts) : m <= t /\ t - m <= lookback_seconds}

\* the greatest member of a non-empty set of instants
latest(S) == CHOOSE m \in S : \A n \in S : n <= m

\* C11: for a session whose first event is at instant t, if the set of pull
\* marks m with m <= t and t - m <= 120 minutes is non-empty, the start is
\* the latest mark of that set (a mark exactly at t is the selected one and
\* leaves start = t); no earlier mark is chosen over a later qualifying one.
C11_LatestMarkInWindow ==
    Returned =>
        \A i \in 1..Len(sessions) :
            LET t == first_instant(sessions[i])
                Q == marks_in_window(pull_times, t)
            IN  Q /= {} => sessions[i].start = latest(Q)

\* the sessions the same commits and gap give when no pull mark is passed
unadjusted == compute_work_sessions(commits, gap_minutes, <<>>)

\* C12: with any pull_times the call returns as many sessions, with the same
\* 'end' and the same 'commits' each, as with no pull_times, and each start
\* is <= the start without pull_times; a session for which no mark lies in
\* the window, and every session when pull_times is empty, is identical to
\* the unadjusted one.
C12_OnlyStartMovesEarlier ==
    Returned =>
        LET base == unadjusted
        IN  /\ Len(sessions) = Len(base)
            /\ \A i \in 1..Len(sessions) :
                   /\ sessions[i].end = base[i].end
                   /\ sessions[i].commits = base[i].commits
                   /\ sessions[i].start <= base[i].start
                   /\ marks_in_window(pull_times, first_instant(sessions[i])) = {}
                          => sessions[i] = base[i]
            /\ pull_times = <<>> => sessions = base

\* two sessions from a call with pull marks: one back-dated, one for which
\* no mark lies in the window
C12_Witness ==
    /\ Returned
    /\ Len(sessions) >= 2
    /\ \E i \in 1..Len(sessions) : sessions[i].start < first_instant(sessions[i])
    /\ \E i \in 1..Len(sessions) :
           /\ marks_in_window(pull_times, first_instant(sessions[i])) = {}
           /\ sessions[i].start = first_instant(sessions[i])
    /\ \E m \in SeqToSet(pull_times) : m > first_instant(sessions[1])

\* the start of the session that the call gives for the one event c alone,
\* where c opens the first session
start_alone(c) == compute_work_sessions(<<c>>, gap_minutes, pull_times)[1].start

\* C13: the pull adjustment is applied to every session, not only the first:
\* the start of each returned session is what the rule of the first session
\* gives for that session's own first event and the pull marks, whatever
\* happened to the other sessions.
C13_EverySessionAdjusted ==
    Returned =>
        \A i \in 1..Len(sessions) :
            sessions[i].start = start_alone(sessions[i].commits[1])

\* a first session left at its first event and a second one back-dated
C13_Witness ==
    /\ Returned
    /\ Len(sessions) >= 2
    /\ sessions[1].start = first_instant(sessions[1])
    /\ sessions[2].start < first_instant(sessions[2])

----------------------------------------------------------------------------
(* Claims about compute_feature_windows, checked under SpecWindows *)

WindowsReturned == pc = "fw_done"

\* the first whitespace-delimited word of s: leading whitespace is skipped
\* and the word ends before the next whitespace character
RECURSIVE up_to_whitespace(_)
up_to_whitespace(s) ==
    IF s = <<>> \/ s[1] \in Whitespace THEN <<>>
    ELSE <<s[1]>> \o up_to_whitespace(Tail(s))

first_word(s) == up_to_whitespace(lstrip(s))

\* the category as the claim derives it
stated_category(msg) ==
    LET word == first_word(lower(split_first(msg, ":")))
    IN  IF word \in Whitelist THEN word ELSE Other

\* C15: the category of an event is the text of its message before the
\* first ':' (all of it when there is none), lowercased, cut to its first
\* whitespace-delimited word, when that word is one of feat, fix, docs,
\* build, refactor, chore, perf, test, and 'other' in every other case; the
\* keys returned are the categories of the events, each one of these 9.
C15_CategoryOfMessage ==
    WindowsReturned =>
        /\ DOMAIN windows \subseteq Whitelist \cup {Other}
        /\ DOMAIN windows
             = {stated_category(commits[i].message) : i \in 1..Len(commits)}

\* C16: for the two events "feat: add x" at t1 and "feat(ui): y" at t2 the
\* call returns for 'feat' a window with start = min(t1, t2),
\* end = max(t1, t2) and count = 2.
C16_ScopedPrefix ==
    (/\ WindowsReturned
     /\ Len(commits) = 2
     /\ {commits[1].message, commits[2].message} = {MsgFeatAddX, MsgFeatUiY})
    => LET t1 == commit_time_dt(commits[1])
           t2 == commit_time_dt(commits[2])
           feat == <<"f", "e", "a", "t">>
       IN  /\ feat \in DOMAIN windows
           /\ windows[feat] = [start |-> Min(t1, t2), end |-> Max(t1, t2),
                               count |-> 2]

\* the positions of the events of category k in the input, keys being the
\* list of the events' categories
events_of(keys, k) == {i \in 1..Len(keys) : keys[i] = k}

RECURSIVE count_sum(_, _)
count_sum(ws, K) ==
    IF K = {} THEN 0
    ELSE LET k == CHOOSE x \in K : TRUE
         IN  ws[k].count + count_sum(ws, K \ {k})

\* C17: for every key returned, start is the least and end the greatest
\* instant of the input events of that category and count is their number
\* (so count >= 1 and start <= end); a category without event has no key,
\* and the counts add up to the number of input events.
C17_WindowIsMinMaxCount ==
    WindowsReturned =>
      LET keys == [i \in 1..Len(commits) |-> key_of(commits[i])]
      IN
        /\ \A k \in DOMAIN windows :
               LET E == events_of(keys, k)
               IN  /\ E /= {}
                   /\ \E i \in E : windows[k].start = commit_time_dt(commits[i])
                   /\ \E i \in E : windows[k].end = commit_time_dt(commits[i])
                   /\ \A i \in E :
                          /\ windows[k].start <= commit_time_dt(commits[i])
                          /\ commit_time_dt(commits[i]) <= windows[k].end
                   /\ windows[k].count = Cardinality(E)
                   /\ windows[k].count >= 1
                   /\ windows[k].start <= windows[k].end
        /\ \A i \in 1..Len(commits) : keys[i] \in DOMAIN windows
        /\ count_sum(windows, DOMAIN windows) = Len(commits)

\* two keys returned, one of them for several events at different instants
C17_Witness ==
    /\ WindowsReturned
    /\ Cardinality(DOMAIN windows) >= 2
    /\ \E k \in DOMAIN windows :
           windows[k].count >= 2 /\ windows[k].start < windows[k].end

\* the rearrangements of a list of n members, for every length of an input
Perms ==
    [n \in 0..Max(Max(MaxCommits, MaxPulls), MaxSessions) |->
        {f \in [1..n -> 1..n] : \A i, j \in 1..n : i /= j => f[i] /= f[j]}]

\* C18: for every permutation of the input list the call returns the same
\* mapping category -> (start, end, count).
C18_OrderIndependent ==
    WindowsReturned =>
        \A f \in Perms[Len(commits)] :
            compute_feature_windows([i \in 1..Len(commits) |-> commits[f[i]]])
                = windows

\* a call whose input holds a category with a later event before an earlier
\* one, and an event of another category
C18_Witness ==
    /\ WindowsReturned
    /\ Cardinality(DOMAIN windows) >= 2
    /\ \E i, j \in 1..Len(commits) :
           /\ i < j
           /\ key_of(commits[i]) = key_of(commits[j])
           /\ commit_time_dt(commits[i]) > commit_time_dt(commits[j])

----------------------------------------------------------------------------
(* Claims about commit_time_dt, checked where the callers apply it *)

\* C19: for an event whose 'date_epoch' is present and not None, whatever
\* integer it is (0 included), commit_time_dt returns the instant of that
\* epoch and does not consult the 'date' text, so it does not raise on it;
\* the date text is parsed only when date_epoch is absent or None.
C19_EpochPreferred ==
    /\ pc = "fw_raised" => commits[widx].date_epoch = None
    /\ (pc \in {"fw_loop", "fw_done"} /\ widx > 1) =>
           LET c == commits[widx - 1]
           IN  IF c.date_epoch /= None
               THEN fw_t = Some(fromtimestamp(c.date_epoch[1]))
               ELSE fw_t = Some(parse_date(c.date))

\* C20: a list in which an event has no usable date_epoch and a date text
\* no parse accepts does not make compute_work_sessions abort: the call
\* returns, and what it returns are the sessions of the list without the
\* events that do not resolve.
C20_UnresolvableDropped ==
    /\ pc /= "cws_raised"
    /\ Returned =>
           sessions = compute_work_sessions(SelectSeq(commits, resolves),
                                            gap_minutes, pull_times)

----------------------------------------------------------------------------
(* Claims about arguments and results of the three functions *)

\* C21: a call of compute_work_sessions with gap_minutes < 1 processes no
\* event and returns no session list: it ends in an error before the sort.
C21_InvalidGapRejected ==
    gap_minutes < 1 => pc \notin {"cws_loop", "cws_done"}

\* C22: empty input gives an empty result and no error: compute_work_sessions
\* on an empty commit list returns an empty list whatever pull_times holds,
\* compute_feature_windows on an empty list returns an empty mapping, and
\* detect_parallel_sessions on a mapping whose session lists are all empty
\* returns an empty list.
C22_EmptyInput ==
    /\ commits = <<>> =>
           /\ pc \notin {"cws_raised", "fw_raised"}
           /\ pc = "cws_done" => sessions = <<>>
           /\ pc = "fw_done" => windows = <<>>
    /\ (/\ pc = "dps_done"
        /\ \A r \in 1..Len(repo_to_sessions) :
               repo_to_sessions[r].sessions = <<>>)
       => final_merged = <<>>

\* compute_work_sessions has returned for no commits and some pull marks
C22_Witness ==
    /\ pc = "cws_done"
    /\ commits = <<>>
    /\ pull_times /= <<>>
    /\ sessions = <<>>

\* C23: the three functions are pure: a call leaves its arguments as they
\* were (the commit list and its order, the pull marks, the gap, every
\* input session) at every step, the phase-2 merge included, and what it
\* returns is determined by the arguments alone, so that a second call on
\* the same input returns the same.
C23_Pure ==
    [][/\ commits' = commits
       /\ gap_minutes' = gap_minutes
       /\ pull_times' = pull_times
       /\ repo_to_sessions' = repo_to_sessions
       /\ pc' = "cws_done" =>
              sessions' = compute_work_sessions(commits, gap_minutes, pull_times)
       /\ pc' = "fw_done" => windows' = compute_feature_windows(commits)
       /\ pc' = "dps_done" =>
              final_merged' = detect_parallel_sessions(repo_to_sessions)]_vars

\* detect_parallel_sessions has returned after a phase-2 merge: fewer
\* periods are returned than phase 1 had formed
C23_Witness ==
    /\ pc = "dps_done"
    /\ final_merged /= <<>>
    /\ Len(merged_overlaps) > Len(final_merged)

\* list s rearranged by f
permuted(s, f) == [i \in 1..Len(s) |-> s[f[i]]]

\* C24: for every permutation of the input commits and every permutation of
\* the pull marks compute_work_sessions returns the same sequence of
\* sessions as to start, end, duration_minutes and the set of events of
\* each session.  (The call on rearranged lists is sessions_of_sorted of
\* what the two sorts make of them.)
C24_SessionsOrderIndependent ==
    (Returned /\ commits /= <<>>) =>
        \A its \in {sorted_by_time(permuted(commits, f)) :
                        f \in Perms[Len(commits)]},
           ps \in {sorted_pulls(permuted(pull_times, g)) :
                       g \in Perms[Len(pull_times)]} :
            LET other == sessions_of_sorted(its, gap_minutes, ps)
            IN  /\ Len(other) = Len(sessions)
                /\ \A i \in 1..Len(sessions) :
                       /\ other[i].start = sessions[i].start
                       /\ other[i].end = sessions[i].end
                       /\ other[i].duration_minutes = sessions[i].duration_minutes
                       /\ SeqToSet(other[i].commits) = SeqToSet(sessions[i].commits)

\* a call that returned several sessions, one of them back-dated, for
\* commits given out of time order and two pull marks
C24_Witness ==
    /\ Returned
    /\ Len(sessions) >= 2
    /\ Len(pull_times) >= 2
    /\ \E i \in 1..Len(sessions) : sessions[i].start < first_instant(sessions[i])
    /\ \E i, j \in 1..Len(commits) :
           i < j /\ commit_time_dt(commits[i]) > commit_time_dt(commits[j])

\* the mappings that hold the lists of rts with the sessions of each list in
\* any order
RECURSIVE session_orders(_)
session_orders(rts) ==
    IF rts = <<>> THEN {<<>>}
    ELSE {<<[repo |-> rts[1].repo, sessions |-> permuted(rts[1].sessions, h)]>>
              \o rest :
              h \in Perms[Len(rts[1].sessions)], rest \in session_orders(Tail(rts))}

\* those mappings with their projects inserted in any order
rearranged(rts) ==
    {permuted(x, g) : x \in session_orders(rts), g \in Perms[Len(rts)]}

\* C25: detect_parallel_sessions returns the same list of periods (start,
\* end, repos, duration_minutes) for every insertion order of the projects
\* in the mapping and every order of the sessions inside each project's
\* list, also when several sessions share the same (start, end).
C25_PeriodsOrderIndependent ==
    ParallelReturned =>
        \A x \in rearranged(repo_to_sessions) :
            detect_parallel_sessions(x) = final_merged

\* periods were returned for a mapping in which sessions of two projects
\* share the same (start, end) and a list holds a later session first
C25_Witness ==
    /\ ParallelReturned
    /\ final_merged /= <<>>
    /\ \E r, q \in 1..Len(repo_to_sessions) :
           /\ r /= q
           /\ \E a \in 1..Len(repo_to_sessions[r].sessions),
                 b \in 1..Len(repo_to_sessions[q].sessions) :
                  /\ repo_to_sessions[r].sessions[a].start
                       = repo_to_sessions[q].sessions[b].start
                  /\ repo_to_sessions[r].sessions[a].end
                       = repo_to_sessions[q].sessions[b].end
    /\ \E r \in 1..Len(repo_to_sessions) :
           \E a, b \in 1..Len(repo_to_sessions[r].sessions) :
               a < b /\ repo_to_sessions[r].sessions[a].start
                          > repo_to_sessions[r].sessions[b].start

----------------------------------------------------------------------------
(* Further claims about detect_parallel_sessions, under SpecParallel *)

\* the periods of the result that span both a and b entirely and list the
\* projects of both
covering(a, b) ==
    {i \in 1..Len(final_merged) :
        /\ final_merged[i].start <= Min(a.start, b.start)
        /\ final_merged[i].end >= Max(a.end, b.end)
        /\ {a.repo, b.repo} \subseteq SeqToSet(final_merged[i].repos)}

\* C26: whenever a session s of project P and a session t of another
\* project Q intersect as closed intervals (s.start <= t.end and
\* t.start <= s.end), the result holds exactly one period that spans both s
\* and t entirely and lists both P and Q in 'repos'.
C26_NoIntersectionMissed ==
    ParallelReturned =>
        LET g == given
        IN  \A a, b \in 1..Len(g) :
                (g[a].repo /= g[b].repo /\ share_instant(g[a], g[b]))
                    => Cardinality(covering(g[a], g[b])) = 1

\* two periods returned, and two sessions of different projects that touch
\* in one instant only
C26_Witness ==
    /\ ParallelReturned
    /\ Len(final_merged) >= 2
    /\ LET g == given
       IN  \E a, b \in 1..Len(g) :
               /\ g[a].repo /= g[b].repo
               /\ g[a].end = g[b].start
               /\ g[a].start < g[a].end
               /\ Cardinality(covering(g[a], g[b])) = 1

----------------------------------------------------------------------------
(* Further claims about compute_work_sessions, under SpecSessions *)

\* C27: for every pair of adjacent sessions i, i+1 returned by
\* compute_work_sessions, with any pull_times, sessions[i].end <
\* sessions[i+1].start: no two sessions share an instant or the same
\* back-dated start.  (Stated for a gap of at least one minute.)
C27_SessionsDisjoint ==
    (Returned /\ gap_minutes >= 1) =>
        \A i \in 1..(Len(sessions) - 1) :
            sessions[i].end < sessions[i + 1].start

C29_PeriodDuration ==
    ParallelReturned =>
        \A i \in 1..Len(final_merged) :
            /\ final_merged[i].start <= final_merged[i].end
            /\ final_merged[i].duration_minutes >= 0
            /\ final_merged[i].duration_minutes * SecondsPerMinute
                   <= final_merged[i].end - final_merged[i].start
            /\ final_merged[i].end - final_merged[i].start
                   < (final_merged[i].duration_minutes + 1) * SecondsPerMinute

\* one period returned that phase 2 merged from a period of one minute and
\* a period of less than a minute: its duration is that of the whole span
C29_Witness ==
    /\ ParallelReturned
    /\ Len(final_merged) = 1
    /\ Len(merged_overlaps) = 2
    /\ merged_overlaps[2].duration_minutes = 0
    /\ final_merged[1].duration_minutes = 2
    /\ final_merged[1].end - final_merged[1].start = 2 * SecondsPerMinute

----------------------------------------------------------------------------
(* Claims about the parallel marker, checked under SpecReport *)

\* every project's sessions are in time order, disjoint and more than a
\* minute apart, as compute_work_sessions returns them for gap_minutes = 1
\* when no start is back-dated
as_segmented(rts) ==
    \A r \in 1..Len(rts) :
        \A j \in 1..(Len(rts[r].sessions) - 1) :
            rts[r].sessions[j + 1].start - rts[r].sessions[j].end
                > SecondsPerMinute

\* session j of project r intersects, as a closed interval, a session of
\* another project
meets_other_project(rts, r, j) ==
    \E q \in 1..Len(rts) :
        /\ q /= r
        /\ \E b \in 1..Len(rts[q].sessions) :
               share_instant(rts[r].sessions[j], rts[q].sessions[b])

\* C30: in the report a session of project P is marked parallel if and only
\* if it intersects, as a closed interval, a session of some other project;
\* a session that intersects none is not marked, also when it lies inside
\* the span of a chained or grace-merged period that lists P.
C30_MarkerIffIntersects ==
    (pc = "report_done" /\ as_segmented(repo_to_sessions)) =>
        \A r \in 1..Len(repo_to_sessions) :
            \A j \in 1..Len(repo_to_sessions[r].sessions) :
                markers[r][j] <=> meets_other_project(repo_to_sessions, r, j)

=============================================================================
